---- MODULE Spec2Model ----
(***************************************************************************)
(* Model of aws/resource_aws_batch_job_queue.go: the Terraform resource    *)
(* for an AWS Batch job queue.  One resource instance (one ResourceData d) *)
(* talks to one remote job queue through CreateJobQueue, UpdateJobQueue,   *)
(* DeleteJobQueue, DescribeJobQueues and the tag-update helper.  Every API *)
(* call is one atomic step; the service and other actors move between the  *)
(* calls.  Any API call may fail.                                          *)
(***************************************************************************)
EXTENDS Integers, Sequences, FiniteSets, TLC

\* ---------------------------------------------------------------- bounds
MaxFetches == 2      \* status fetches a poll makes before its timeout elapses

\* ------------------------------------------------------- program constants
MaxItems == 3        \* schema: compute_environment_order MaxItems

QueueName == "q1"
QueueArn == "arn:q1"

Priorities == {1, 2}
States == {"ENABLED", "DISABLED"}
TagSets == {"t1", "t2"}

JQStatusCreating == "CREATING"
JQStatusUpdating == "UPDATING"
JQStatusValid == "VALID"
JQStatusDeleting == "DELETING"
JQStatusDeleted == "DELETED"
JQStatusInvalid == "INVALID"
JQStateDisabled == "DISABLED"
JQStateEnabled == "ENABLED"

Statuses ==
  {JQStatusCreating, JQStatusUpdating, JQStatusValid,
   JQStatusDeleting, JQStatusDeleted, JQStatusInvalid}

\* The keys of the resource schema.  "compute_environments" is not one.
SchemaKeys ==
  {"compute_environment_order", "name", "priority", "state",
   "tags", "tags_all", "arn"}

\* The Go type the framework stores a schema.TypeInt value with (d.Get of
\* "priority" is asserted to int on line 85; "order" is a TypeInt too).
TypeIntGoType == "int"

\* ---------------------------------------------------------------- helpers
Range(s) == {s[i] : i \in 1..Len(s)}

Contains(s, e) == \E i \in 1..Len(s) : s[i] = e

Entry(ce, o) == [compute_environment |-> ce, order |-> o]

\* the entries of the scenario of the specification: {a,1} and {b,0}
Entries == {Entry("a", 1), Entry("b", 0)}

\* compute-environment order lists: none, or the two entries in either
\* order; at most MaxItems entries
CEOLists ==
  {s \in {<<>>} \cup (Entries \X Entries) :
     /\ Len(s) <= MaxItems
     /\ \A i, j \in 1..Len(s) : i # j => s[i] # s[j]}

\* all orders in which the API may return the entries of a list
Perms(s) ==
  IF Len(s) = 2 THEN {s, <<s[2], s[1]>>} ELSE {s}

\* sort.Slice by the order field (insertion sort for these lengths)
RECURSIVE InsertByOrder(_, _)
InsertByOrder(e, s) ==
  IF s = <<>> THEN <<e>>
  ELSE IF e.order < Head(s).order THEN <<e>> \o s
  ELSE <<Head(s)>> \o InsertByOrder(e, Tail(s))

RECURSIVE SortByOrder(_)
SortByOrder(s) ==
  IF s = <<>> THEN <<>>
  ELSE InsertByOrder(s[Len(s)], SortByOrder(SubSeq(s, 1, Len(s) - 1)))

\* ------------------------------------------------------------------ state
VARIABLES
  remote,    \* the job queue as the service holds it
  dupes,     \* the service answers a lookup of the queue with two entries
  d,         \* schema.ResourceData: id and attributes as the operation sees them
  prior,     \* the attributes before the running operation (old side of HasChange)
  plan,      \* the desired attributes the running operation was invoked with
  op,        \* the lifecycle operation running or last run
  pc,        \* position inside the operation
  fetches,   \* status fetches made by the running poll
  result,    \* how the last operation ended: "none", "ok", "err", "panic"
  trace,     \* API calls and poll endings of the current invocation, in order
  lastReq,   \* the last mutating request sent
  lookup     \* what the last lookup made by Read returned

vars == <<remote, dupes, d, prior, plan, op, pc, fetches, result, trace, lastReq, lookup>>

Absent == [status |-> "ABSENT", state |-> "", priority |-> 0, ceo |-> <<>>, tags |-> ""]

Exists == remote.status # "ABSENT"

EmptyAttrs == [priority |-> 0, state |-> "", compute_environment_order |-> <<>>, tags_all |-> ""]

Attrs == [priority : Priorities, state : States,
          compute_environment_order : CEOLists, tags_all : TagSets]

EmptyD ==
  [id |-> "", arn |-> "", name |-> "", priority |-> 0, state |-> "",
   compute_environment_order |-> <<>>, tags |-> "", tags_all |-> ""]

NoReq == [call |-> "none", name |-> "", priority |-> 0, state |-> "", ceo |-> <<>>]

AttrsOf(r) ==
  [priority |-> r.priority, state |-> r.state,
   compute_environment_order |-> r.compute_environment_order,
   tags_all |-> r.tags_all]

Init ==
  /\ remote = Absent
  /\ dupes = FALSE
  /\ d = EmptyD
  /\ prior = EmptyAttrs
  /\ plan = EmptyAttrs
  /\ op = "none"
  /\ pc = "idle"
  /\ fetches = 0
  /\ result = "none"
  /\ trace = <<>>
  /\ lastReq = NoReq
  /\ lookup = "none"

\* ------------------------------------------------------------ the service
\* DescribeJobQueues for the name or ARN sn: an error, or the matching
\* entries, their compute environments in any order
Matches(sn) == Exists /\ sn \in {QueueName, QueueArn}

DescribeResponses(sn) ==
  {[err |-> TRUE, queues |-> <<>>]} \cup
  {[err |-> FALSE, queues |-> qs] :
     qs \in IF ~Matches(sn) THEN {<<>>}
            ELSE {IF dupes THEN <<q, q>> ELSE <<q>> :
                    q \in {[remote EXCEPT !.ceo = p] : p \in Perms(remote.ceo)}}}

LookupKind(resp) ==
  IF resp.err THEN "err"
  ELSE IF Len(resp.queues) = 0 THEN "zero"
  ELSE IF Len(resp.queues) = 1 THEN "one"
  ELSE "many"

\* UpdateJobQueue as the service applies it: omitted fields are kept
ApplyUpdate(q, req) ==
  [q EXCEPT !.status = JQStatusUpdating,
            !.state = IF req.state = "" THEN @ ELSE req.state,
            !.priority = IF req.priority = 0 THEN @ ELSE req.priority,
            !.ceo = IF req.ceo = <<>> THEN @ ELSE req.ceo]

CanCreate == ~Exists
CanUpdate(name) ==
  Exists /\ name = QueueName /\ remote.status \notin {JQStatusDeleting, JQStatusDeleted}
CanDelete(name) == CanUpdate(name) /\ remote.state = JQStateDisabled

\* outcomes of an API call: it may always fail
CallOutcomes(possible) == IF possible THEN {TRUE, FALSE} ELSE {FALSE}

\* the service finishes a creation or an update
SvcSettle ==
  /\ pc # "done"
  /\ remote.status \in {JQStatusCreating, JQStatusUpdating}
  /\ \E s \in {JQStatusValid, JQStatusInvalid} : remote' = [remote EXCEPT !.status = s]
  /\ UNCHANGED <<dupes, d, prior, plan, op, pc, fetches, result, trace, lastReq, lookup>>

\* the service carries a deletion through
SvcDelete ==
  /\ pc # "done"
  /\ \/ remote.status = JQStatusDeleting /\ remote' = [remote EXCEPT !.status = JQStatusDeleted]
     \/ remote.status \in {JQStatusDeleting, JQStatusDeleted} /\ remote' = Absent
  /\ dupes' = IF remote'.status = "ABSENT" THEN FALSE ELSE dupes
  /\ UNCHANGED <<d, prior, plan, op, pc, fetches, result, trace, lastReq, lookup>>

\* another actor creates a queue of this name, or removes the queue
ExternalCreate ==
  /\ pc # "done"
  /\ ~Exists
  /\ \E a \in {x \in Attrs : x.priority = 1 /\ x.tags_all = "t1" /\ x.state = JQStateEnabled} :
       remote' = [status |-> JQStatusValid, state |-> a.state, priority |-> a.priority,
                  ceo |-> a.compute_environment_order, tags |-> a.tags_all]
  /\ UNCHANGED <<dupes, d, prior, plan, op, pc, fetches, result, trace, lastReq, lookup>>

ExternalDelete ==
  /\ pc # "done"
  /\ Exists
  /\ remote' = Absent
  /\ dupes' = FALSE
  /\ UNCHANGED <<d, prior, plan, op, pc, fetches, result, trace, lastReq, lookup>>

\* the service starts or stops answering the lookup with a duplicate entry
DuplicateToggle ==
  /\ pc # "done"
  /\ Exists
  /\ dupes' = ~dupes
  /\ UNCHANGED <<remote, d, prior, plan, op, pc, fetches, result, trace, lastReq, lookup>>

\* ------------------------------------------------- the framework's data
\* d.Set(key, v): an error, and no change, for a key the schema lacks
SetOK(key) == key \in SchemaKeys

Set(r, key, v) == IF SetOK(key) THEN [r EXCEPT ![key] = v] ELSE r

\* d.HasChange(key): a key the schema lacks reads as nil on both sides
HasChange(o, n, key) == key \in SchemaKeys /\ o[key] # n[key]

HasChanges(o, n, keys) == \E k \in keys : HasChange(o, n, k)

\* ----------------------------------------------------- the pure functions
\* createComputeEnvironmentOrder: m["order"].(int64) panics on a value of
\* another Go type; no entry leaves envs nil, which the requests omit
createComputeEnvironmentOrder(order) ==
  [panic |-> order # <<>> /\ TypeIntGoType # "int64",
   envs |-> [i \in 1..Len(order) |->
              Entry(order[i].compute_environment, order[i].order)]]

\* getJobQueue taking a lookup without entries for a failure
getJobQueueZeroErr(resp) ==
  IF resp.err THEN [err |-> TRUE, nil |-> TRUE, jq |-> Absent]
  ELSE IF Len(resp.queues) = 0 THEN [err |-> TRUE, nil |-> TRUE, jq |-> Absent]
  ELSE IF Len(resp.queues) = 1 THEN [err |-> FALSE, nil |-> FALSE, jq |-> resp.queues[1]]
  ELSE [err |-> TRUE, nil |-> TRUE, jq |-> Absent]

\* getJobQueue returning the first of several entries
getJobQueueManyFirst(resp) ==
  IF resp.err THEN [err |-> TRUE, nil |-> TRUE, jq |-> Absent]
  ELSE IF Len(resp.queues) = 0 THEN [err |-> FALSE, nil |-> TRUE, jq |-> Absent]
  ELSE [err |-> FALSE, nil |-> FALSE, jq |-> resp.queues[1]]

\* getJobQueue on the response of DescribeJobQueues
getJobQueue(resp) ==
  IF resp.err THEN [err |-> TRUE, nil |-> TRUE, jq |-> Absent]
  ELSE IF Len(resp.queues) = 0 THEN [err |-> FALSE, nil |-> TRUE, jq |-> Absent]
  ELSE IF Len(resp.queues) = 1 THEN [err |-> FALSE, nil |-> FALSE, jq |-> resp.queues[1]]
  ELSE [err |-> TRUE, nil |-> TRUE, jq |-> Absent]

\* the refresh function reporting a failed lookup as a deleted queue
batchJobQueueRefreshStatusFuncMut(resp) ==
  LET ce == getJobQueue(resp) IN
  IF ce.err THEN [value |-> "42", status |-> JQStatusDeleted, err |-> FALSE]
  ELSE IF ce.nil THEN [value |-> "42", status |-> JQStatusDeleted, err |-> FALSE]
  ELSE [value |-> "queue", status |-> ce.jq.status, err |-> FALSE]

\* the closure batchJobQueueRefreshStatusFunc returns: result, status, error
batchJobQueueRefreshStatusFunc(resp) ==
  LET ce == getJobQueue(resp) IN
  IF ce.err THEN [value |-> "nil", status |-> "failed", err |-> TRUE]
  ELSE IF ce.nil THEN [value |-> "42", status |-> JQStatusDeleted, err |-> FALSE]
  ELSE [value |-> "queue", status |-> ce.jq.status, err |-> FALSE]

\* targets that take a status still in progress for the end of the wait
CreateTargetMut == {JQStatusValid, JQStatusCreating}
DisableTargetMut == {JQStatusValid, JQStatusUpdating}
UpdateTargetMut == {JQStatusValid, JQStatusUpdating}

\* pending sets that wait on through a status the poll is to fail on
CreatePendingMut == {JQStatusCreating, JQStatusUpdating, JQStatusInvalid}
DeletePendingMut == {JQStateDisabled, JQStatusDeleting, JQStatusValid}

\* the pending and target statuses of the four polls
CreatePending == {JQStatusCreating, JQStatusUpdating}
CreateTarget == {JQStatusValid}
UpdatePending == {JQStatusUpdating}
UpdateTarget == {JQStatusValid}
DisablePending == {JQStatusUpdating}
DisableTarget == {JQStatusValid}
DeletePending == {JQStateDisabled, JQStatusDeleting}
DeleteTarget == {JQStatusDeleted}

\* one round of StateChangeConf.WaitForState after n earlier fetches:
\* how the poll goes on, and the event its ending leaves
WaitForState(pending, target, r, n) ==
  IF r.err THEN [next |-> "fail", event |-> "failed"]
  ELSE IF r.status \in target THEN [next |-> "ok", event |-> r.status]
  ELSE IF r.status \notin pending THEN [next |-> "fail", event |-> r.status]
  ELSE IF n + 1 >= MaxFetches THEN [next |-> "fail", event |-> "timeout"]
  ELSE [next |-> "continue", event |-> "pending"]

\* resourceAwsBatchJobQueueRead on the response of its lookup
resourceAwsBatchJobQueueRead(r, resp) ==
  LET g == getJobQueue(resp)
      jq == g.jq
      r1 == Set(r, "arn", QueueArn)
      sorted == SortByOrder(jq.ceo)
      computeEnvironments == [i \in 1..Len(sorted) |-> sorted[i].compute_environment]
      r2 == Set(r1, "compute_environments", computeEnvironments)
      r3 == Set(Set(Set(r2, "name", QueueName), "priority", jq.priority), "state", jq.state)
      r4 == Set(Set(r3, "tags", jq.tags), "tags_all", jq.tags)
  IN IF g.err THEN [d |-> r, err |-> TRUE]
     ELSE IF g.nil THEN [d |-> [r EXCEPT !.id = ""], err |-> FALSE]
     ELSE IF ~SetOK("compute_environments") THEN [d |-> r1, err |-> TRUE]
     ELSE IF ~SetOK("tags") \/ ~SetOK("tags_all") THEN [d |-> r3, err |-> TRUE]
     ELSE [d |-> r4, err |-> FALSE]

Res(err) == IF err THEN "err" ELSE "ok"

\* -------------------------------------------------------------- operations
Finish(r) == pc' = "done" /\ result' = r /\ fetches' = 0

Begin(o) == op' = o

WithAttrs(r, a) ==
  [r EXCEPT !.priority = a.priority, !.state = a.state,
            !.compute_environment_order = a.compute_environment_order,
            !.tags = a.tags_all, !.tags_all = a.tags_all]

\* a lookup that also re-submits the queue
ReadCallsMut == <<"DescribeJobQueues", "UpdateJobQueue">>

\* the API calls of one Read: the DescribeJobQueues of getJobQueue
ReadCalls == <<"DescribeJobQueues">>

\* Read, invoked by the framework on a resource it holds
Read ==
  /\ pc = "idle" /\ d.id # ""
  /\ Begin("Read")
  /\ \E resp \in DescribeResponses(d.id) :
       LET rr == resourceAwsBatchJobQueueRead(d, resp) IN
       /\ d' = rr.d
       /\ lookup' = LookupKind(resp)
       /\ Finish(Res(rr.err))
  /\ trace' = ReadCalls
  /\ prior' = EmptyAttrs /\ plan' = EmptyAttrs
  /\ UNCHANGED <<remote, dupes, lastReq>>

\* the read-back that ends Create and Update
ReadBack ==
  /\ pc = "read"
  /\ \E resp \in DescribeResponses(d.id) :
       LET rr == resourceAwsBatchJobQueueRead(d, resp) IN
       /\ d' = rr.d
       /\ lookup' = LookupKind(resp)
       /\ Finish(Res(rr.err))
  /\ trace' = trace \o ReadCalls
  /\ UNCHANGED <<remote, dupes, prior, plan, op, lastReq>>

\* Import: the importer's State function seeds "arn" with the supplied id;
\* the framework then runs Read on the result
ImportState ==
  /\ pc = "idle" /\ d.id = ""
  /\ Begin("Import")
  /\ LET d0 == [EmptyD EXCEPT !.id = QueueArn]
     IN d' = Set(d0, "arn", d0.id)
  /\ pc' = "read" /\ result' = "none" /\ fetches' = 0
  /\ trace' = <<>> /\ lookup' = "none"
  /\ prior' = EmptyAttrs /\ plan' = EmptyAttrs
  /\ UNCHANGED <<remote, dupes, lastReq>>

\* Create up to its CreateJobQueue call
CreateCall ==
  /\ pc = "idle" /\ d.id = ""
  /\ Begin("Create")
  /\ \E a \in Attrs :
       LET d1 == WithAttrs([EmptyD EXCEPT !.name = QueueName], a)
           c == createComputeEnvironmentOrder(d1.compute_environment_order)
           req == [call |-> "CreateJobQueue", name |-> d1.name, priority |-> d1.priority,
                   state |-> d1.state, ceo |-> c.envs]
       IN /\ prior' = EmptyAttrs /\ plan' = a /\ lookup' = "none"
          /\ IF c.panic
             THEN /\ Finish("panic")
                  /\ trace' = <<>>
                  /\ UNCHANGED <<remote, d, lastReq>>
             ELSE /\ lastReq' = req
                  /\ \E ok \in CallOutcomes(CanCreate) :
                       IF ok
                       THEN /\ remote' = [status |-> JQStatusCreating, state |-> req.state,
                                          priority |-> req.priority, ceo |-> req.ceo,
                                          tags |-> d1.tags_all]
                            /\ d' = d1
                            /\ trace' = <<"CreateJobQueue">>
                            /\ pc' = "create_wait" /\ result' = "none" /\ fetches' = 0
                       ELSE /\ Finish("err")
                            /\ trace' = <<"CreateJobQueue", "error">>
                            /\ UNCHANGED <<remote, d>>
  /\ UNCHANGED dupes

\* Create recording the ARN and reading back whatever the poll returned
CreateAfterPollMut(err) == "setid"

\* what Create does with the error of its poll
CreateAfterPoll(err) == IF err THEN "return" ELSE "setid"

\* one status fetch of Create's poll
CreateWait ==
  /\ pc = "create_wait"
  /\ \E resp \in DescribeResponses(d.name) :
       LET w == WaitForState(CreatePending, CreateTarget,
                             batchJobQueueRefreshStatusFunc(resp), fetches)
       IN CASE w.next = "continue" ->
                 /\ fetches' = fetches + 1
                 /\ UNCHANGED <<d, pc, result, trace>>
            [] OTHER ->
                 /\ trace' = Append(trace, w.event)
                 /\ IF CreateAfterPoll(w.next = "fail") = "return"
                    THEN /\ Finish("err")
                         /\ UNCHANGED d
                    ELSE /\ d' = [d EXCEPT !.id = QueueArn]
                         /\ pc' = "read" /\ fetches' = 0
                         /\ UNCHANGED result
  /\ UNCHANGED <<remote, dupes, prior, plan, op, lastReq, lookup>>

\* the update call issued for a change of the tags as well
UpdateKeysMut == {"compute_environments", "priority", "state", "tags_all"}

\* the attributes whose change makes Update issue the update call
UpdateKeys == {"compute_environments", "priority", "state"}

\* Update up to its UpdateJobQueue call
UpdateCall ==
  /\ pc = "idle" /\ d.id # ""
  /\ Begin("Update")
  /\ \E a \in Attrs :
       LET d1 == WithAttrs(d, a)
           c == createComputeEnvironmentOrder(d1.compute_environment_order)
           req == [call |-> "UpdateJobQueue", name |-> d1.name, priority |-> d1.priority,
                   state |-> d1.state, ceo |-> c.envs]
       IN /\ prior' = AttrsOf(d) /\ plan' = a /\ lookup' = "none"
          /\ IF ~HasChanges(AttrsOf(d), d1, UpdateKeys)
             THEN /\ d' = d1
                  /\ trace' = <<>>
                  /\ pc' = "update_tags" /\ result' = "none" /\ fetches' = 0
                  /\ UNCHANGED <<remote, lastReq>>
             ELSE IF c.panic
             THEN /\ Finish("panic")
                  /\ trace' = <<>>
                  /\ UNCHANGED <<remote, d, lastReq>>
             ELSE /\ lastReq' = req
                  /\ d' = d1
                  /\ \E ok \in CallOutcomes(CanUpdate(req.name)) :
                       IF ok
                       THEN /\ remote' = ApplyUpdate(remote, req)
                            /\ trace' = <<"UpdateJobQueue">>
                            /\ pc' = "update_wait" /\ result' = "none" /\ fetches' = 0
                       ELSE /\ Finish("err")
                            /\ trace' = <<"UpdateJobQueue", "error">>
                            /\ UNCHANGED remote
  /\ UNCHANGED dupes

\* one status fetch of Update's poll
UpdateWait ==
  /\ pc = "update_wait"
  /\ \E resp \in DescribeResponses(d.name) :
       LET w == WaitForState(UpdatePending, UpdateTarget,
                             batchJobQueueRefreshStatusFunc(resp), fetches)
       IN CASE w.next = "continue" ->
                 /\ fetches' = fetches + 1
                 /\ UNCHANGED <<pc, result, trace>>
            [] w.next = "ok" ->
                 /\ trace' = Append(trace, w.event)
                 /\ pc' = "update_tags" /\ fetches' = 0
                 /\ UNCHANGED result
            [] OTHER ->
                 /\ trace' = Append(trace, w.event)
                 /\ Finish("err")
  /\ UNCHANGED <<remote, dupes, d, prior, plan, op, lastReq, lookup>>

\* the tag reconciliation of Update: BatchUpdateTags on the "arn" attribute
UpdateTags ==
  /\ pc = "update_tags"
  /\ IF HasChange(prior, d, "tags_all")
     THEN /\ lastReq' = [NoReq EXCEPT !.call = "UpdateTags", !.name = d.arn]
          /\ \E ok \in CallOutcomes(Exists /\ d.arn = QueueArn) :
               IF ok
               THEN /\ remote' = [remote EXCEPT !.tags = d.tags_all]
                    /\ trace' = Append(trace, "UpdateTags")
                    /\ pc' = "read"
                    /\ UNCHANGED <<result, fetches>>
               ELSE /\ trace' = trace \o <<"UpdateTags", "error">>
                    /\ Finish("err")
                    /\ UNCHANGED remote
     ELSE /\ pc' = "read"
          /\ UNCHANGED <<remote, lastReq, trace, result, fetches>>
  /\ UNCHANGED <<dupes, d, prior, plan, op, lookup>>

\* Delete going on to the delete phase whatever the disable phase returned
DeleteAfterDisableMut(err) == "delete"

\* what Delete does with the error of disableBatchJobQueue
DeleteAfterDisable(err) == IF err THEN "return" ELSE "delete"

\* a disable request that resets the priority as well
disableBatchJobQueueInputMut(jobQueue) ==
  [call |-> "UpdateJobQueue", name |-> jobQueue, priority |-> 1,
   state |-> JQStateDisabled, ceo |-> <<>>]

\* the UpdateJobQueueInput of disableBatchJobQueue: JobQueue and State only
disableBatchJobQueueInput(jobQueue) ==
  [call |-> "UpdateJobQueue", name |-> jobQueue, priority |-> 0,
   state |-> JQStateDisabled, ceo |-> <<>>]

\* Delete up to the UpdateJobQueue call of disableBatchJobQueue
DisableCall ==
  /\ pc = "idle" /\ d.id # ""
  /\ Begin("Delete")
  /\ prior' = EmptyAttrs /\ plan' = EmptyAttrs /\ lookup' = "none"
  /\ LET req == disableBatchJobQueueInput(d.name)
     IN /\ lastReq' = req
        /\ \E ok \in CallOutcomes(CanUpdate(req.name)) :
             IF ok
             THEN /\ remote' = ApplyUpdate(remote, req)
                  /\ trace' = <<"UpdateJobQueue">>
                  /\ pc' = "disable_wait" /\ result' = "none" /\ fetches' = 0
             ELSE /\ trace' = <<"UpdateJobQueue", "error">>
                  /\ UNCHANGED remote
                  /\ IF DeleteAfterDisable(TRUE) = "return"
                     THEN Finish("err")
                     ELSE pc' = "delete_call" /\ result' = "none" /\ fetches' = 0
  /\ UNCHANGED <<dupes, d>>

\* one status fetch of the poll of disableBatchJobQueue
DisableWait ==
  /\ pc = "disable_wait"
  /\ \E resp \in DescribeResponses(d.name) :
       LET w == WaitForState(DisablePending, DisableTarget,
                             batchJobQueueRefreshStatusFunc(resp), fetches)
       IN CASE w.next = "continue" ->
                 /\ fetches' = fetches + 1
                 /\ UNCHANGED <<pc, result, trace>>
            [] OTHER ->
                 /\ trace' = Append(trace, w.event)
                 /\ IF DeleteAfterDisable(w.next = "fail") = "return"
                    THEN Finish("err")
                    ELSE pc' = "delete_call" /\ fetches' = 0 /\ UNCHANGED result
  /\ UNCHANGED <<remote, dupes, d, prior, plan, op, lastReq, lookup>>

\* deleteBatchJobQueue issuing the call again when it returned an error
deleteAfterCallRetry(err) == IF err THEN "retry" ELSE "wait"

\* what deleteBatchJobQueue does with the error of DeleteJobQueue
deleteAfterCall(err) == IF err THEN "return" ELSE "wait"

\* the DeleteJobQueue call of deleteBatchJobQueue
DeleteCall ==
  /\ pc = "delete_call"
  /\ lastReq' = [NoReq EXCEPT !.call = "DeleteJobQueue", !.name = d.name]
  /\ \E ok \in CallOutcomes(CanDelete(d.name)) :
       IF ok
       THEN /\ remote' = [remote EXCEPT !.status = JQStatusDeleting]
            /\ trace' = Append(trace, "DeleteJobQueue")
            /\ pc' = "delete_wait"
            /\ UNCHANGED <<result, fetches>>
       ELSE /\ trace' = trace \o <<"DeleteJobQueue", "error">>
            /\ IF deleteAfterCall(TRUE) = "return"
               THEN Finish("err")
               ELSE UNCHANGED <<pc, result, fetches>>
            /\ UNCHANGED remote
  /\ UNCHANGED <<dupes, d, prior, plan, op, lookup>>

\* one status fetch of the poll of deleteBatchJobQueue; the framework
\* drops the resource when Delete returns nil
DeleteWait ==
  /\ pc = "delete_wait"
  /\ \E resp \in DescribeResponses(d.name) :
       LET w == WaitForState(DeletePending, DeleteTarget,
                             batchJobQueueRefreshStatusFunc(resp), fetches)
       IN CASE w.next = "continue" ->
                 /\ fetches' = fetches + 1
                 /\ UNCHANGED <<d, pc, result, trace>>
            [] w.next = "ok" ->
                 /\ trace' = Append(trace, w.event)
                 /\ d' = EmptyD
                 /\ Finish("ok")
            [] OTHER ->
                 /\ trace' = Append(trace, w.event)
                 /\ Finish("err")
                 /\ UNCHANGED d
  /\ UNCHANGED <<remote, dupes, prior, plan, op, lastReq, lookup>>

\* the operation has returned; the framework keeps d for the next one,
\* unless the id is empty or an import failed
Return ==
  /\ pc = "done"
  /\ pc' = "idle" /\ op' = "none" /\ result' = "none" /\ trace' = <<>>
  /\ prior' = EmptyAttrs /\ plan' = EmptyAttrs /\ lastReq' = NoReq /\ lookup' = "none"
  /\ d' = IF d.id = "" \/ (op = "Import" /\ result # "ok") THEN EmptyD ELSE d
  /\ UNCHANGED <<remote, dupes, fetches>>

Next ==
  \/ Return
  \/ Read \/ ReadBack \/ ImportState
  \/ CreateCall \/ CreateWait
  \/ UpdateCall \/ UpdateWait \/ UpdateTags
  \/ DisableCall \/ DisableWait \/ DeleteCall \/ DeleteWait
  \/ SvcSettle \/ SvcDelete \/ ExternalCreate \/ ExternalDelete \/ DuplicateToggle

Spec == Init /\ [][Next]_vars

\* a poll is a loop on the caller's thread: its next fetch does happen
FairSpec ==
  Spec /\ WF_vars(CreateWait) /\ WF_vars(UpdateWait)
       /\ WF_vars(DisableWait) /\ WF_vars(DeleteWait)

\* ------------------------------------------------------------------ claims
\* the three attributes whose change is to trigger the update call
Changed ==
  \/ plan.priority # prior.priority
  \/ plan.state # prior.state
  \/ plan.compute_environment_order # prior.compute_environment_order

\* C1: in Delete, the disable call (UpdateJobQueue with state DISABLED) and
\* its poll come before DeleteJobQueue, and DeleteJobQueue is issued only
\* after that poll has observed status VALID.
C1_DisableBeforeDelete ==
  op = "Delete" =>
    /\ pc = "disable_wait" =>
         /\ trace = <<"UpdateJobQueue">>
         /\ lastReq.call = "UpdateJobQueue" /\ lastReq.state = JQStateDisabled
    /\ (pc = "delete_call" \/ Contains(trace, "DeleteJobQueue")) =>
         /\ Len(trace) >= 2
         /\ trace[1] = "UpdateJobQueue" /\ trace[2] = JQStatusValid
         /\ \A i \in 1..Len(trace) : trace[i] = "DeleteJobQueue" => i = 3

C1_Witness ==
  op = "Delete" /\ pc = "delete_wait" /\ trace = <<"UpdateJobQueue", "VALID", "DeleteJobQueue">>

\* C2: when the disable phase of Delete fails (the call fails, or its poll
\* ends by an unexpected status, a fetch error or the timeout), Delete
\* returns an error and no DeleteJobQueue call is issued.
C2_DisableFailureStopsDelete ==
  (op = "Delete" /\ Len(trace) >= 2 /\ trace[2] # JQStatusValid) =>
    /\ pc = "done" /\ result = "err"
    /\ ~Contains(trace, "DeleteJobQueue")
    /\ Len(trace) = 2

C2_Witness ==
  op = "Delete" /\ pc = "done" /\ trace = <<"UpdateJobQueue", "timeout">>

\* C3: an Update in which the desired priority, state or compute-environment
\* order differs from the current one issues the UpdateJobQueue call carrying
\* the desired priority, state and order.
C3_UpdateCallOnAnyChange ==
  (op = "Update" /\ Changed) =>
    /\ Len(trace) >= 1 /\ trace[1] = "UpdateJobQueue"
    /\ pc \in {"update_wait", "update_tags"} =>
         /\ lastReq.call = "UpdateJobQueue"
         /\ lastReq.priority = plan.priority /\ lastReq.state = plan.state
         /\ lastReq.ceo = plan.compute_environment_order

\* C4: an Update with priority, state and compute-environment order
\* unchanged issues no UpdateJobQueue call and runs no poll; when the tags
\* changed it still issues the tag update, on the "arn" attribute.
C4_NoUpdateCallWhenUnchanged ==
  (op = "Update" /\ ~Changed) =>
    /\ Range(trace) \subseteq {"UpdateTags", "error", "DescribeJobQueues"}
    /\ pc # "update_wait" /\ fetches = 0
    /\ (plan.tags_all # prior.tags_all /\ pc \in {"read", "done"}) =>
         /\ trace[1] = "UpdateTags"
         /\ lastReq.call = "UpdateTags" /\ lastReq.name = d.arn

C4_Witness ==
  /\ op = "Update" /\ ~Changed /\ plan.tags_all # prior.tags_all
  /\ pc = "read" /\ trace = <<"UpdateTags">>

\* what stands between a Create and its normal course: a failed call, a poll
\* that did not end on VALID, a read-back that did not find the one queue
CreateDisturbed ==
  \/ Contains(trace, "error")
  \/ Len(trace) >= 2 /\ trace[2] # JQStatusValid
  \/ lookup \in {"err", "zero", "many"}

\* C5: Create followed by Read, with the service reaching VALID and nobody
\* else touching the queue, ends without error and leaves a stored state
\* whose priority, state and compute-environment order are the spec's.
C5_CreateReadRoundTrip ==
  (op = "Create" /\ pc = "done" /\ ~CreateDisturbed) =>
    /\ result = "ok"
    /\ d.priority = plan.priority /\ d.state = plan.state
    /\ d.compute_environment_order = plan.compute_environment_order

\* C6: the compute-environment order list Read leaves in the stored state
\* for an existing queue is the queue's list sorted ascending by order,
\* whatever the order the API returned the entries in.
C6_ReadExposesSortedOrder ==
  (pc = "done" /\ op \in {"Read", "Create", "Update"} /\ lookup = "one") =>
    d.compute_environment_order = SortByOrder(remote.ceo)

\* C7: when the lookup of Read returns no job queue, Read returns no error
\* and clears the resource id.
C7_ReadAbsentClearsId ==
  (pc = "done" /\ lookup = "zero") => (result = "ok" /\ d.id = "")

C7_Witness ==
  pc = "done" /\ op = "Read" /\ lookup = "zero" /\ d.arn = QueueArn

\* C8: when the lookup of Read returns more than one job queue, Read
\* returns an error and leaves the id and the attributes as they were.
C8_ReadAmbiguousIsError ==
  [][(pc # "done" /\ pc' = "done" /\ lookup' = "many") =>
       (result' = "err" /\ d' = d)]_vars

C8_Witness ==
  pc = "done" /\ op = "Read" /\ lookup = "many" /\ result = "err"

\* C9: no operation returns success without its poll having observed the
\* target status (VALID for create, update and disable, DELETED for
\* delete), and a poll that runs into its timeout makes the operation
\* return an error at once.
C9_NoSuccessWithoutTarget ==
  /\ (op = "Create" /\ pc \in {"read", "done"} /\ result # "err" /\ result # "panic") =>
       (Len(trace) >= 2 /\ trace[1] = "CreateJobQueue" /\ trace[2] = JQStatusValid)
  /\ (op = "Update" /\ pc \in {"update_tags", "read", "done"} /\ result # "err"
        /\ Contains(trace, "UpdateJobQueue")) =>
       (Len(trace) >= 2 /\ trace[1] = "UpdateJobQueue" /\ trace[2] = JQStatusValid)
  /\ (op = "Delete" /\ pc \in {"delete_call", "delete_wait"}) =>
       (Len(trace) >= 2 /\ trace[2] = JQStatusValid)
  /\ (op = "Delete" /\ pc = "done" /\ result = "ok") =>
       trace = <<"UpdateJobQueue", JQStatusValid, "DeleteJobQueue", JQStatusDeleted>>
  /\ Contains(trace, "timeout") =>
       (pc = "done" /\ result = "err" /\ trace[Len(trace)] = "timeout")

C9_Witness ==
  op = "Create" /\ pc = "done" /\ result = "err" /\ trace = <<"CreateJobQueue", "timeout">>

\* C10: whenever Create returns without error, the resource id is the ARN
\* of the CreateJobQueue response.
C10_CreateSuccessHasArn ==
  (op = "Create" /\ pc = "done" /\ result = "ok") => d.id = QueueArn

\* how often the event e occurs in the sequence s
Count(s, e) == Cardinality({i \in 1..Len(s) : s[i] = e})

MutatingCalls == {"CreateJobQueue", "UpdateJobQueue", "DeleteJobQueue"}

\* C11: within one invocation each mutating call is issued at most once
\* (CreateJobQueue in Create, UpdateJobQueue in Update, the disable
\* UpdateJobQueue and DeleteJobQueue in Delete), a call that returned an
\* error is not issued again, and only the status fetch is repeated.
C11_NoRetryOfMutatingCalls ==
  /\ \A c \in MutatingCalls : Count(trace, c) <= 1
  /\ op = "Create" => Range(trace) \cap MutatingCalls \subseteq {"CreateJobQueue"}
  /\ op = "Update" => Range(trace) \cap MutatingCalls \subseteq {"UpdateJobQueue"}
  /\ op = "Delete" => Range(trace) \cap MutatingCalls \subseteq {"UpdateJobQueue", "DeleteJobQueue"}
  /\ op \in {"Read", "Import"} => Range(trace) \cap MutatingCalls = {}
  /\ \A i \in 1..Len(trace) :
       (trace[i] = "error" /\ trace[i - 1] \in MutatingCalls) =>
         (i = Len(trace) /\ pc = "done" /\ result = "err")

C11_Witness ==
  /\ op = "Delete" /\ pc = "done" /\ result = "err"
  /\ trace = <<"UpdateJobQueue", "VALID", "DeleteJobQueue", "error">>

\* a step of the program at a poll: the service does not move in it
FetchStep(p) == pc = p /\ remote' = remote /\ dupes' = dupes

\* C12: after a successful DeleteJobQueue call, Delete returns success only
\* when its poll observed DELETED or the queue absent, goes on waiting only
\* on DISABLED and DELETING, and returns an error on observing VALID,
\* UPDATING, CREATING or INVALID.
C12_DeletePollStatuses ==
  [][FetchStep("delete_wait") =>
       /\ remote.status \in {"VALID", "UPDATING", "CREATING", "INVALID"} =>
            (pc' = "done" /\ result' = "err")
       /\ result' = "ok" =>
            (remote.status \in {"DELETED", "ABSENT"} /\ trace' = Append(trace, "DELETED"))
       /\ pc' = "delete_wait" => remote.status \in {"DISABLED", "DELETING"}
       /\ trace[Len(trace)] = "DeleteJobQueue"]_vars

C12_Witness ==
  /\ op = "Delete" /\ pc = "done" /\ result = "err"
  /\ trace = <<"UpdateJobQueue", "VALID", "DeleteJobQueue", "VALID">>

\* the status a fetch of the poll reads when the lookup does not fail
FetchedStatus == IF Exists THEN remote.status ELSE "DELETED"

\* one fetch of the poll at p: it ends the poll in one of four ways, or the
\* status is pending and the poll goes on with one fetch more
PollStep(p, pending, target) ==
  FetchStep(p) =>
    LET s == FetchedStatus IN
    \/ /\ s \in target /\ ~dupes
       /\ trace' = Append(trace, s) /\ pc' # p /\ result' # "err"
    \/ /\ s \notin (pending \cup target)
       /\ trace' = Append(trace, s) /\ pc' = "done" /\ result' = "err"
    \/ /\ trace' = Append(trace, "failed") /\ pc' = "done" /\ result' = "err"
    \/ /\ s \in pending /\ fetches + 1 >= MaxFetches
       /\ trace' = Append(trace, "timeout") /\ pc' = "done" /\ result' = "err"
    \/ /\ s \in pending /\ fetches + 1 < MaxFetches
       /\ pc' = p /\ fetches' = fetches + 1 /\ trace' = trace /\ result' = result

WaitPcs == {"create_wait", "update_wait", "disable_wait", "delete_wait"}

\* C13: every status poll ends, after a bounded number of fetches, in one of
\* four ways: success at the first fetch reading a target status, failure
\* at the first fetch reading a status neither pending nor target, failure
\* at the first failing fetch, failure by timeout while the status stays
\* pending; no fetch follows the end.
C13_PollOutcomes ==
  [][/\ PollStep("create_wait", {"CREATING", "UPDATING"}, {"VALID"})
     /\ PollStep("update_wait", {"UPDATING"}, {"VALID"})
     /\ PollStep("disable_wait", {"UPDATING"}, {"VALID"})
     /\ PollStep("delete_wait", {"DISABLED", "DELETING"}, {"DELETED"})
     /\ pc' \in WaitPcs => fetches' < MaxFetches
     /\ pc' \notin WaitPcs => fetches' = 0]_vars
  /\ ((pc \in WaitPcs) ~> (pc \notin WaitPcs))

C13_Witness ==
  op = "Update" /\ pc = "done" /\ result = "err" /\ trace = <<"UpdateJobQueue", "timeout">>

\* C14: the status-fetch function returns DELETED with a placeholder result
\* and no error exactly when the lookup returns no queue, the queue's own
\* status when it returns one queue, and an error with the status "failed",
\* which is no status of the API, when the lookup fails or returns several.
C14_RefreshStatus ==
  pc \in {"create_wait", "update_wait", "disable_wait", "delete_wait"} =>
  \A resp \in DescribeResponses(d.name) :
    LET r == batchJobQueueRefreshStatusFunc(resp)
        k == LookupKind(resp)
    IN /\ (r.value = "42") <=> (k = "zero")
       /\ k = "zero" => (r.status = "DELETED" /\ ~r.err)
       /\ k = "one" => (r.status = resp.queues[1].status /\ r.value = "queue" /\ ~r.err)
       /\ k \in {"err", "many"} => (r.err /\ r.status = "failed" /\ r.value = "nil")
       /\ r.err => r.status \notin
            {"CREATING", "UPDATING", "VALID", "DELETING", "DELETED", "INVALID"}

C14_Witness ==
  /\ op = "Delete" /\ pc = "delete_wait" /\ fetches = 1 /\ ~Exists
  /\ trace = <<"UpdateJobQueue", "VALID", "DeleteJobQueue">>

\* the failures of Update: a failed call, a poll ending off VALID
UpdateFailures == {"error", "timeout", "failed"} \cup (Statuses \ {JQStatusValid})

\* C15: Update runs update call, poll, tag update, read-back in this order
\* and every error ends it: after a failed UpdateJobQueue call or a poll
\* that did not reach VALID there is no tag-update call and no read-back,
\* after a failed tag-update call there is no read-back, and no call undoes
\* an update call that succeeded.
C15_UpdateErrorsTerminal ==
  op = "Update" =>
    /\ Range(trace) \cap {"CreateJobQueue", "DeleteJobQueue"} = {}
    /\ \A i \in 1..Len(trace) :
         /\ trace[i] = "UpdateJobQueue" => i = 1
         /\ trace[i] = "UpdateTags" =>
              (i = 1 \/ (i = 3 /\ trace[1] = "UpdateJobQueue" /\ trace[2] = JQStatusValid))
         /\ trace[i] = "DescribeJobQueues" =>
              /\ i = Len(trace) /\ pc = "done"
              /\ \A j \in 1..(i - 1) : trace[j] \in {"UpdateJobQueue", JQStatusValid, "UpdateTags"}
              /\ i > 1 /\ trace[1] = "UpdateJobQueue" => trace[2] = JQStatusValid
         /\ (trace[i] \in UpdateFailures) =>
              (i = Len(trace) /\ pc = "done" /\ result = "err")
    /\ (pc \in {"update_tags", "read"} /\ trace # <<>> /\ trace[1] = "UpdateJobQueue") =>
         (Len(trace) >= 2 /\ trace[2] = JQStatusValid)
    /\ (pc \in {"update_wait", "update_tags", "read"} /\ trace # <<>> /\ trace[1] = "UpdateJobQueue") =>
         (lastReq.call \in {"UpdateJobQueue", "UpdateTags"}
          /\ (lastReq.call = "UpdateJobQueue" =>
                lastReq.priority = plan.priority /\ lastReq.state = plan.state))

C15_Witness ==
  /\ op = "Update" /\ pc = "done" /\ result = "err"
  /\ trace = <<"UpdateJobQueue", "VALID", "UpdateTags", "error">>

\* C16 as claimed: whenever Create returns an error, the resource id is
\* unset.
C16_CreateErrorNoId ==
  (op = "Create" /\ pc = "done" /\ result = "err") => d.id = ""

\* C16, amended: when Create returns an error before its read-back the id
\* is unset: a failed CreateJobQueue call is followed by no poll, a failed
\* poll by no recording of the ARN, and Create issues no delete call; when
\* the poll reached VALID the id is the ARN from then on, and an error of
\* the read-back is returned with the id still the ARN.
C16_CreateErrorIdBeforeReadBack ==
  op = "Create" =>
    /\ ~Contains(trace, "DeleteJobQueue")
    /\ pc = "create_wait" => (trace = <<"CreateJobQueue">> /\ d.id = "")
    /\ (Len(trace) >= 2 /\ trace[2] # JQStatusValid) =>
         /\ Len(trace) = 2 /\ pc = "done" /\ result = "err"
         /\ d.id = ""
         /\ lastReq.call = "CreateJobQueue"
    /\ pc = "read" => d.id = QueueArn
    /\ (pc = "done" /\ result = "err" /\ Contains(trace, "DescribeJobQueues")) =>
         (d.id = QueueArn /\ trace[2] = JQStatusValid)

C16_Witness ==
  /\ op = "Create" /\ pc = "done" /\ result = "err"
  /\ trace = <<"CreateJobQueue", "timeout">>
  /\ Exists /\ d.id = ""

\* a step Delete takes: the start of the operation, a call or a fetch
DeleteStep ==
  \/ pc = "idle" /\ op' = "Delete"
  \/ /\ op = "Delete" /\ pc \in {"disable_wait", "delete_call", "delete_wait"}
     /\ (pc' # pc \/ fetches' # fetches \/ trace' # trace)

\* C17: the disable request of Delete carries the queue name and state
\* DISABLED and nothing else, so the disable phase leaves the remote
\* priority and compute-environment order as they were; Delete issues
\* UpdateJobQueue once, as its first call and with state DISABLED, so a
\* Delete whose delete phase failed has issued no call re-enabling the queue.
C17_DisableOnlyState ==
  [][DeleteStep =>
       /\ pc = "idle" =>
            /\ lastReq' = [call |-> "UpdateJobQueue", name |-> d.name, priority |-> 0,
                           state |-> JQStateDisabled, ceo |-> <<>>]
            /\ trace'[1] = "UpdateJobQueue"
       /\ pc \in {"idle", "disable_wait"} =>
            (remote'.priority = remote.priority /\ remote'.ceo = remote.ceo
             /\ remote'.tags = remote.tags)
       /\ pc # "idle" =>
            /\ Count(trace', "UpdateJobQueue") = 1 /\ trace'[1] = "UpdateJobQueue"
            /\ lastReq'.call = "UpdateJobQueue" => lastReq' = lastReq
            /\ remote'.state = remote.state
       /\ (pc \in {"delete_call", "delete_wait"} /\ pc' = "done" /\ result' = "err") =>
            (lastReq'.call = "DeleteJobQueue" /\ remote'.state = remote.state)]_vars

C17_Witness ==
  /\ op = "Delete" /\ pc = "done" /\ result = "err"
  /\ trace = <<"UpdateJobQueue", "VALID", "DeleteJobQueue", "timeout">>
  /\ Exists /\ remote.state = JQStateDisabled /\ remote.priority = 2

\* a step that is a Read (from the framework or as read-back) or a fetch of
\* a poll
ReadOrFetchStep ==
  \/ pc = "idle" /\ op' = "Read"
  \/ pc = "read" /\ pc' = "done"
  \/ pc \in WaitPcs /\ (pc' # pc \/ fetches' # fetches)

\* the events a step adds to the trace
NewEvents ==
  IF pc = "idle" THEN Range(trace')
  ELSE {trace'[i] : i \in (Len(trace) + 1)..Len(trace')}

\* C18: Read and the status fetch issue DescribeJobQueues only: none of
\* their steps issues CreateJobQueue, UpdateJobQueue, DeleteJobQueue or a
\* tag update, and each leaves the remote queue (status, state, priority,
\* compute-environment order, tags) as it was.
C18_ReadAndFetchReadOnly ==
  [][ReadOrFetchStep =>
       /\ remote' = remote /\ dupes' = dupes
       /\ lastReq' = lastReq
       /\ NewEvents \cap (MutatingCalls \cup {"UpdateTags"}) = {}
       /\ pc \notin WaitPcs => NewEvents = {"DescribeJobQueues"}]_vars

C18_Witness ==
  /\ op = "Read" /\ pc = "done" /\ result = "err" /\ lookup = "one"
  /\ trace = <<"DescribeJobQueues">> /\ lastReq = NoReq
  /\ Exists /\ remote.ceo # <<>>

\* C19: Import of an existing queue, given its ARN as the id, sets the
\* "arn" attribute to that id and, through Read, leaves the stored name,
\* priority, state and compute-environment order equal to the remote
\* queue's.
C19_ImportReadsQueue ==
  (op = "Import" /\ pc = "done" /\ lookup = "one") =>
    /\ result = "ok"
    /\ d.id = QueueArn /\ d.arn = QueueArn
    /\ d.name = QueueName
    /\ d.priority = remote.priority /\ d.state = remote.state
    /\ d.compute_environment_order = SortByOrder(remote.ceo)

====
